---- MODULE Spec2Model ----
(***************************************************************************)
(* A model of gmail_archiver.py: the archive_gmail run (one IMAP session,  *)
(* the mailbox loop, the batch loop, the per-message fetch-and-store       *)
(* sequence) together with the pure helpers it calls (sanitize_filename,   *)
(* get_email_date, get_email_folder_path, get_unique_filename,             *)
(* save_attachments).  Text is a sequence of one-character strings, a path *)
(* is a sequence of path components, the file system is a set of           *)
(* directories and a function from file paths to contents.                 *)
(***************************************************************************)
EXTENDS Integers, Sequences, FiniteSets, TLC

\* ------------------------------------------------------------------ bounds

\* Largest number of handles a search returns.
MaxMsgs == 3
\* Largest batch_size tried.
MaxBatch == 2
\* Largest number of injected failures (non-OK statuses, raised errors) in a run.
MaxFaults == 1

\* ------------------------------------------------------------------- text

Take(s, n) == IF Len(s) <= n THEN s ELSE SubSeq(s, 1, n)

Drop(s, n) == IF n >= Len(s) THEN << >> ELSE SubSeq(s, n + 1, Len(s))

Digit(d) ==
    CASE d = 0 -> "0" [] d = 1 -> "1" [] d = 2 -> "2" [] d = 3 -> "3"
      [] d = 4 -> "4" [] d = 5 -> "5" [] d = 6 -> "6" [] d = 7 -> "7"
      [] d = 8 -> "8" [] d = 9 -> "9"

RECURSIVE Str(_)
\* str(n) of a natural number, as in the f-strings of lines 81 and 117
Str(n) == IF n < 10 THEN << Digit(n) >> ELSE Str(n \div 10) \o << Digit(n % 10) >>

\* strftime's zero-padded two- and four-digit fields
Pad2(n) == << Digit((n \div 10) % 10), Digit(n % 10) >>

Pad4(n) == Pad2(n \div 100) \o Pad2(n % 100)

\* The character class of the regular expression of line 45.
Reserved == {"\\", "/", "*", "?", ":", "\"", "<", ">", "|"}

sanitize_filename_keeps_colon(filename) ==
    [k \in 1..Len(filename) |->
        IF filename[k] \in (Reserved \ {":"}) THEN "_" ELSE filename[k]]

sanitize_filename(filename) ==
    [k \in 1..Len(filename) |-> IF filename[k] \in Reserved THEN "_" ELSE filename[k]]

\* s.strip(): leading and trailing white space removed
RECURSIVE LStrip(_, _)
LStrip(s, cs) == IF s # << >> /\ Head(s) \in cs THEN LStrip(Tail(s), cs) ELSE s

RECURSIVE RStrip(_, _)
RStrip(s, cs) ==
    IF s # << >> /\ s[Len(s)] \in cs THEN RStrip(SubSeq(s, 1, Len(s) - 1), cs) ELSE s

Strip(s, cs) == RStrip(LStrip(s, cs), cs)

HasPrefixAt(s, p, d) ==
    /\ p + Len(d) - 1 <= Len(s)
    /\ \A k \in 1..Len(d) : s[p + k - 1] = d[k]

RECURSIVE LastPieceFrom(_, _, _, _)
\* s.split(d)[-1]: scanning left to right from position p, start is where the
\* current piece begins; occurrences of d do not overlap.
LastPieceFrom(s, d, p, start) ==
    IF p > Len(s) THEN Drop(s, start - 1)
    ELSE IF HasPrefixAt(s, p, d)
         THEN LastPieceFrom(s, d, p + Len(d), p + Len(d))
         ELSE LastPieceFrom(s, d, p + 1, start)

SplitLast(s, d) == LastPieceFrom(s, d, 1, 1)

RECURSIVE FirstPieceFrom(_, _, _)
\* s.split(d)[0]
FirstPieceFrom(s, d, p) ==
    IF p > Len(s) THEN s
    ELSE IF HasPrefixAt(s, p, d) THEN Take(s, p - 1)
         ELSE FirstPieceFrom(s, d, p + 1)

SplitFirst(s, d) == FirstPieceFrom(s, d, 1)

Contains(s, c) == \E k \in 1..Len(s) : s[k] = c

\* os.path.splitext of a name without directory separators: the extension
\* starts at the last dot, unless only dots precede it.
LastDot(s) ==
    IF Contains(s, ".")
    THEN CHOOSE k \in 1..Len(s) : s[k] = "." /\ \A j \in (k + 1)..Len(s) : s[j] # "."
    ELSE 0

splitext(s) ==
    LET k == LastDot(s) IN
    IF k > 0 /\ \E j \in 1..(k - 1) : s[j] # "."
    THEN << Take(s, k - 1), Drop(s, k - 1) >>
    ELSE << s, << >> >>

\* ------------------------------------------------------------ file system

\* A file system: the directories that exist and the content of every file.
EmptyFS == [dirs |-> {}, files |-> << >>]

\* os.path.join(path, name)
join(path, name) == Append(path, name)

\* os.path.exists(path)
exists(fs, path) == path \in fs.dirs \/ path \in DOMAIN fs.files

\* os.makedirs(path, exist_ok=True): the directory and every missing parent
makedirs(fs, path) ==
    [fs EXCEPT !.dirs = @ \cup {SubSeq(path, 1, k) : k \in 1..Len(path)}]

\* with open(path, 'wb') as f: f.write(content)
write_file(fs, path, content) ==
    [fs EXCEPT !.files = [q \in (DOMAIN @) \cup {path} |->
                              IF q = path THEN content ELSE @[q]]]

\* What open(path, 'wb') leaves when the write raises: a created, empty file.
EmptyContent == "empty"

\* --------------------------------------------------------------- messages

T_eml == << ".", "e", "m", "l" >>

T_unknown_date == << "u", "n", "k", "n", "o", "w", "n", "_", "d", "a", "t", "e" >>

T_NoSubject == << "N", "o", " ", "S", "u", "b", "j", "e", "c", "t" >>

T_unknown_sender ==
    << "u", "n", "k", "n", "o", "w", "n", "@", "s", "e", "n", "d", "e", "r",
       ".", "c", "o", "m" >>

T_attachments == << "a", "t", "t", "a", "c", "h", "m", "e", "n", "t", "s" >>

T__attachments == << "_" >> \o T_attachments

\* email_message.get(name, default)
Header(h, default) == IF h.present THEN h.value ELSE default

Absent == [present |-> FALSE, value |-> << >>]

Present(v) == [present |-> TRUE, value |-> v]

\* The Date header as email.utils.parsedate_tz and datetime.fromtimestamp give
\* it: absent or unparsable, or the fields of the local date.
NoDate == [present |-> FALSE, Y |-> 0, M |-> 0, D |-> 0, h |-> 0, mi |-> 0, s |-> 0]

DateOf(Y, M, D, h, mi, s) ==
    [present |-> TRUE, Y |-> Y, M |-> M, D |-> D, h |-> h, mi |-> mi, s |-> s]

\* strftime("%Y-%m-%d_%H-%M-%S"), or "unknown_date"
get_email_date(msg) ==
    IF msg.Date.present
    THEN Pad4(msg.Date.Y) \o << "-" >> \o Pad2(msg.Date.M) \o << "-" >>
           \o Pad2(msg.Date.D) \o << "_" >> \o Pad2(msg.Date.h) \o << "-" >>
           \o Pad2(msg.Date.mi) \o << "-" >> \o Pad2(msg.Date.s)
    ELSE T_unknown_date

\* base_path/YYYY-MM, or base_path/unknown_date
get_email_folder_path(msg, base_path) ==
    IF msg.Date.present
    THEN join(base_path, Pad4(msg.Date.Y) \o << "-" >> \o Pad2(msg.Date.M))
    ELSE join(base_path, T_unknown_date)

\* The address between the last '<' and the following '>', else the header.
FromAddress(from_addr) ==
    IF Contains(from_addr, "<")
    THEN SplitFirst(SplitLast(from_addr, << "<" >>), << ">" >>)
    ELSE from_addr

SubjectPrefixLen == 50

BaseNameLen == 120

\* base_filename of get_unique_filename (lines 66-75)
base_filename(msg) ==
    LET date == get_email_date(msg)
        subject == sanitize_filename(Header(msg.Subject, T_NoSubject))
        from_addr == sanitize_filename(FromAddress(Header(msg.From, T_unknown_sender)))
        base == date \o << "_" >> \o from_addr \o << "_" >> \o Take(subject, SubjectPrefixLen)
    IN  IF Len(base) > BaseNameLen THEN Take(base, BaseNameLen) ELSE base

eml_counter_loop_once(fs, folder_path, base, counter) ==
    base \o << "_" >> \o Str(counter) \o T_eml

RECURSIVE eml_counter_loop(_, _, _, _)
\* The while loop of lines 80-82, entered with filename = base_counter.eml
eml_counter_loop(fs, folder_path, base, counter) ==
    LET filename == base \o << "_" >> \o Str(counter) \o T_eml IN
    IF exists(fs, join(folder_path, filename))
    THEN eml_counter_loop(fs, folder_path, base, counter + 1)
    ELSE filename

get_unique_filename_unchecked(msg, folder_path, fs) == base_filename(msg) \o T_eml

get_unique_filename_from_zero(msg, folder_path, fs) ==
    LET base == base_filename(msg) IN
    IF exists(fs, join(folder_path, base \o T_eml))
    THEN eml_counter_loop(fs, folder_path, base, 0)
    ELSE base \o T_eml

get_unique_filename(msg, folder_path, fs) ==
    LET base == base_filename(msg) IN
    IF exists(fs, join(folder_path, base \o T_eml))
    THEN eml_counter_loop(fs, folder_path, base, 1)
    ELSE base \o T_eml

\* ------------------------------------------------------------ attachments

AttachPrefixLen == 30

\* attach_folder_name (lines 103-105)
attach_folder_name(msg) ==
    get_email_date(msg) \o << "_" >>
      \o Take(sanitize_filename(Header(msg.Subject, T_NoSubject)), AttachPrefixLen)
      \o T__attachments

\* attachments_path (line 106)
attachments_path_of(msg, base_path) ==
    join(join(base_path, T_attachments), attach_folder_name(msg))

RECURSIVE attachment_counter_loop(_, _, _, _)
\* The while loop of lines 115-118, entered with name_counter.ext
attachment_counter_loop(fs, attachments_path, filename, counter) ==
    LET ne == splitext(filename)
        filepath == join(attachments_path, ne[1] \o << "_" >> \o Str(counter) \o ne[2])
    IN  IF exists(fs, filepath)
        THEN attachment_counter_loop(fs, attachments_path, filename, counter + 1)
        ELSE filepath

attachment_filepath_unchecked(fs, attachments_path, filename) ==
    join(attachments_path, filename)

\* filepath of lines 111-118
attachment_filepath(fs, attachments_path, filename) ==
    IF exists(fs, join(attachments_path, filename))
    THEN attachment_counter_loop(fs, attachments_path, filename, 1)
    ELSE join(attachments_path, filename)

is_attachment_part_without_disposition(part) ==
    /\ part.maintype # "multipart"
    /\ part.filename # << >>

\* The three continue tests of lines 91-99.
is_attachment_part(part) ==
    /\ part.maintype # "multipart"
    /\ part.disposition
    /\ part.filename # << >>

\* A write of open(path, 'wb'): where, whether the path existed already, what
\* was written, and whether the write completed.
WriteEvent(kind, fs, path, content, completed) ==
    [kind |-> kind, path |-> path, existed |-> exists(fs, path),
     content |-> content, completed |-> completed]

NoAttachmentsYet(fs) ==
    [fs |-> fs, attachments_path |-> << >>, writes |-> << >>, raised |-> FALSE]

RECURSIVE walk_from(_, _, _, _, _)
\* The loop of lines 90-123 from part k of email_message.walk() on.  io names
\* the file-system call that raises for this message, if any.
walk_from(msg, base_path, k, acc, io) ==
    IF k > Len(msg.parts) \/ acc.raised THEN acc
    ELSE
      LET part == msg.parts[k] IN
      IF ~is_attachment_part(part) THEN walk_from(msg, base_path, k + 1, acc, io)
      ELSE
        LET first == acc.attachments_path = << >>
            ap == attachments_path_of(msg, base_path)
            fs1 == IF first THEN makedirs(acc.fs, ap) ELSE acc.fs
            filename == sanitize_filename(part.filename)
            filepath == attachment_filepath(fs1, ap, filename)
        IN  IF first /\ io = "makedirs_att"
            THEN [acc EXCEPT !.raised = TRUE]
            ELSE IF first /\ io = "open_att"
            THEN [acc EXCEPT !.fs = fs1, !.attachments_path = ap, !.raised = TRUE]
            ELSE IF ~part.payload.present
            \* open() has created the file; f.write(None) raises TypeError
            THEN [fs |-> write_file(fs1, filepath, EmptyContent),
                  attachments_path |-> ap,
                  writes |-> Append(acc.writes,
                               WriteEvent("att", fs1, filepath, EmptyContent, FALSE)),
                  raised |-> TRUE]
            ELSE walk_from(msg, base_path, k + 1,
                   [fs |-> write_file(fs1, filepath, part.payload.data),
                    attachments_path |-> ap,
                    writes |-> Append(acc.writes,
                                 WriteEvent("att", fs1, filepath, part.payload.data, TRUE)),
                    raised |-> FALSE], io)

save_attachments(msg, base_path, fs, io) ==
    walk_from(msg, base_path, 1, NoAttachmentsYet(fs), io)

\* ------------------------------------------------- the remote account

T_Hi == << "H", "i" >>

T_f_pdf == << "f", ".", "p", "d", "f" >>

Part(maintype, disposition, filename, payload) ==
    [maintype |-> maintype, disposition |-> disposition, filename |-> filename,
     payload |-> payload]

\* part.get_payload(decode=True): bytes, or None for a part that holds a
\* message (message/rfc822) rather than a transfer-encoded body.
Bytes(data) == [present |-> TRUE, data |-> data]

NoPayload == [present |-> FALSE, data |-> "None"]

TextBody == Part("text", FALSE, << >>, Bytes("text"))

\* email.message_from_bytes(raw_email, policy=email.policy.default), as the
\* headers get_unique_filename reads and the parts email_message.walk() yields:
\*   mA  a plain text message
\*   mB  the headers of mA; an inline image and two attachments named f.pdf
\*   mC  no Date, no Subject; an attached message (no decodable payload)
\*       followed by an attached PDF
message_from_bytes(raw) ==
    CASE raw = "mA" ->
           [Date |-> DateOf(2023, 1, 2, 10, 0, 0),
            From |-> Present(<< "N", " ", "<", "x", "@", "y", ">" >>),
            Subject |-> Present(T_Hi),
            parts |-> << TextBody >>]
      [] raw = "mB" ->
           [Date |-> DateOf(2023, 1, 2, 10, 0, 0),
            From |-> Present(<< "x", "@", "y" >>),
            Subject |-> Present(T_Hi),
            parts |-> << Part("multipart", FALSE, << >>, NoPayload),
                         TextBody,
                         Part("image", FALSE, << "i", ".", "p", "n", "g" >>, Bytes("png")),
                         Part("application", TRUE, T_f_pdf, Bytes("pdf1")),
                         Part("application", TRUE, T_f_pdf, Bytes("pdf2")) >>]
      [] raw = "mC" ->
           [Date |-> NoDate,
            From |-> Present(<< "a", ":", "b" >>),
            Subject |-> Absent,
            parts |-> << Part("multipart", FALSE, << >>, NoPayload),
                         TextBody,
                         Part("message", TRUE, << "e", ".", "e", "m", "l" >>, NoPayload),
                         TextBody,
                         Part("application", TRUE, << "r", "?", ".", "p", "d", "f" >>,
                              Bytes("pdf3")) >>]

\* What the mailboxes of an account hold, handle by handle, as raw bytes (a
\* Gmail label shows the messages of the account, so every mailbox holds a
\* prefix of it; past the third handle the three messages repeat).
Contents == << "mA", "mB", "mC" >>

OtherContents == << "mC", "mB", "mB" >>

\* The bytes the server holds for handle h.
raw_of(acct, h) == acct.messages[((h - 1) % Len(acct.messages)) + 1]

T_INBOX == << "I", "N", "B", "O", "X" >>

T_a_slash_b == << "a", "/", "b" >>

T_a_b == << "a", "_", "b" >>

\* One line of the LIST response: flags, the hierarchy delimiter, the name.
ListEntry(name, quoted) ==
    << "(", "\\", "N", ")", " ", "\"", "/", "\"", " " >>
      \o (IF quoted THEN << "\"" >> \o name \o << "\"" >> ELSE name)

\* The LIST responses of the accounts.
Listings ==
    { << >>,
      << ListEntry(T_INBOX, FALSE) >>,
      << ListEntry(T_INBOX, TRUE), ListEntry(T_a_b, TRUE) >>,
      << ListEntry(T_a_slash_b, TRUE), ListEntry(T_a_b, FALSE) >> }

\* The remote accounts: the messages held, the mailboxes listed and the
\* numbers of messages a mailbox may hold.
Accounts ==
    {[messages |-> Contents, listing |-> l, sizes |-> 0..MaxMsgs] : l \in Listings}
      \cup {[messages |-> OtherContents, listing |-> << ListEntry(T_INBOX, FALSE) >>,
              sizes |-> 0..MaxMsgs]}

\* folder_info.decode().split('"/"')[-1].strip().strip('"')  (line 154)
parse_folder_name(folder_info) ==
    Strip(Strip(SplitLast(folder_info, << "\"", "/", "\"" >>), {" "}), {"\""})

\* include_folders: None, or a list of names
NoFolders == [given |-> FALSE, names |-> {}]

FolderList(names) == [given |-> TRUE, names |-> names]

IncludeChoices == {NoFolders, FolderList({}), FolderList({T_a_b})}

is_included_ignores_empty(include, name) ==
    ~include.given \/ name \in include.names

is_included_inverted(include, name) == include.given /\ include.names # {} /\ name \notin include.names

\* not (include_folders and folder_name not in include_folders)  (line 157)
is_included(include, name) ==
    ~(include.given /\ include.names # {} /\ name \notin include.names)

BatchSizes == {-1, 0} \cup (1..MaxBatch)

OutputDir == << << "o", "u", "t" >> >>

\* ------------------------------------------------------------------ state

VARIABLES
    pc,               \* the position of archive_gmail
    outcome,          \* "running", then "returned" or "raised" (to the caller)
    state,            \* the IMAP4 session: "NONAUTH", "AUTH", "SELECTED", "LOGOUT"
    account,          \* the remote account
    include_folders,  \* argument
    batch_size,       \* argument
    folder_list,      \* the listing (line 146)
    fidx,             \* how many entries of folder_list the for loop has taken
    folder_name,      \* line 154
    folder_path,      \* line 162
    message_numbers,  \* line 180
    i,                \* the range variable of line 185
    batch_end,        \* line 186
    batch_numbers,    \* line 187
    msg_index,        \* how many handles of the batch the inner loop has taken
    fs,               \* the local file system
    log,              \* the warning and error lines logged, and the final info line
    calls,            \* history: the session calls, file-system faults and pauses
    writes,           \* history: every open(path, 'wb')
    faults,           \* the number of failures injected so far
    probe             \* the inputs and results of a function applied on its own

vars ==
    << pc, outcome, state, account, include_folders, batch_size, folder_list, fidx,
       folder_name, folder_path, message_numbers, i, batch_end, batch_numbers,
       msg_index, fs, log, calls, writes, faults, probe >>

\* What no step of archive_gmail changes: its arguments, and the record of the
\* functions applied on their own.
args == << account, include_folders, batch_size, probe >>

\* Everything but probe.
run_vars ==
    << pc, outcome, state, account, include_folders, batch_size, folder_list, fidx,
       folder_name, folder_path, message_numbers, i, batch_end, batch_numbers,
       msg_index, fs, log, calls, writes, faults >>

NoProbe == [kind |-> "none"]

folder_vars == << folder_list, fidx, folder_name, folder_path >>

batch_vars == << message_numbers, i, batch_end, batch_numbers, msg_index >>

\* A history entry.  mbox is the position of the mailbox in the listing, h a
\* handle, n the number of handles of a search, io the file-system call that
\* raised while a message was stored, raw the bytes fetch returned.
Call(op, mbox, h, res) ==
    [op |-> op, mbox |-> mbox, h |-> h, res |-> res, n |-> 0, io |-> "none", raw |-> "none"]

\* logging.warning / logging.error / logging.info
LogLine(level, what, folder, h) ==
    [level |-> level, what |-> what, folder |-> folder, h |-> h]

CanFail == faults < MaxFaults

\* The outcomes the environment may give a call: success always, a failure
\* while the budget of injected failures lasts.
Outcomes(failures) == {"OK"} \cup (IF CanFail THEN failures ELSE {})

Charge(res) == faults' = IF res = "OK" THEN faults ELSE faults + 1

top_level_except_reraises == "raised"

\* except Exception as e: logging.error(...)  (lines 241-242): the function
\* then returns None.
top_level_except == "returned"

\* An exception that reaches the handler of line 241.
RunError(newcalls) ==
    /\ pc' = "done"
    /\ outcome' = top_level_except
    /\ log' = Append(log, LogLine("ERROR", "run", << >>, 0))
    /\ calls' = newcalls

\* The entry of archive_gmail, for the given accounts and arguments.
InitWith(accounts, includes, sizes) ==
    /\ pc = "login"
    /\ outcome = "running"
    /\ state = "NONAUTH"
    /\ account \in accounts
    /\ include_folders \in includes
    /\ batch_size \in sizes
    /\ folder_list = << >>
    /\ fidx = 0
    /\ folder_name = << >>
    /\ folder_path = << >>
    /\ message_numbers = << >>
    /\ i = 0
    /\ batch_end = 0
    /\ batch_numbers = << >>
    /\ msg_index = 0
    /\ fs = EmptyFS
    /\ log = << >>
    /\ calls = << >>
    /\ writes = << >>
    /\ faults = 0
    /\ probe = NoProbe

Init == InitWith(Accounts, IncludeChoices, BatchSizes)

\* lines 139-140: imaplib.IMAP4_SSL(...) and mail.login(...)
Login ==
    /\ pc = "login"
    /\ \E res \in Outcomes({"raise"}) :
         /\ Charge(res)
         /\ IF res = "OK"
            THEN /\ state' = "AUTH"
                 /\ pc' = "makedirs_root"
                 /\ calls' = Append(calls, Call("login", 0, 0, "OK"))
                 /\ UNCHANGED << outcome, log >>
            ELSE /\ RunError(Append(calls, Call("login", 0, 0, "raise")))
                 /\ UNCHANGED state
    /\ UNCHANGED << args, folder_vars, batch_vars, fs, writes >>

\* line 143: os.makedirs(output_dir, exist_ok=True)
MakeOutputDir ==
    /\ pc = "makedirs_root"
    /\ \E res \in Outcomes({"raise"}) :
         /\ Charge(res)
         /\ IF res = "OK"
            THEN /\ fs' = makedirs(fs, OutputDir)
                 /\ pc' = "list"
                 /\ UNCHANGED << outcome, log, calls >>
            ELSE /\ RunError(Append(calls, Call("makedirs", 0, 0, "raise")))
                 /\ UNCHANGED fs
    /\ UNCHANGED << args, state, folder_vars, batch_vars, writes >>

\* lines 146-150: mail.list(); a status other than OK is logged and the
\* function returns.
List ==
    /\ pc = "list"
    /\ \E res \in Outcomes({"NO", "raise"}) :
         /\ Charge(res)
         /\ CASE res = "OK" ->
                   /\ folder_list' = account.listing
                   /\ pc' = "for_folder"
                   /\ calls' = Append(calls, Call("list", 0, 0, "OK"))
                   /\ UNCHANGED << outcome, log >>
              [] res = "NO" ->
                   /\ pc' = "done"
                   /\ outcome' = "returned"
                   /\ log' = Append(log, LogLine("ERROR", "list", << >>, 0))
                   /\ calls' = Append(calls, Call("list", 0, 0, "NO"))
                   /\ UNCHANGED folder_list
              [] res = "raise" ->
                   /\ RunError(Append(calls, Call("list", 0, 0, "raise")))
                   /\ UNCHANGED folder_list
    /\ UNCHANGED << args, state, fidx, folder_name, folder_path, batch_vars, fs,
                    writes >>

\* ------------------------------------------------------- the mailbox loop

after_select_not_ok_closes == "close"

\* `continue` of line 172: the next entry of the listing
after_select_not_ok == "for_folder"

\* `continue` of line 178: the next entry of the listing
after_search_not_ok == "for_folder"

\* except Exception of lines 231-232, then line 235
after_folder_exception == "close"

\* `continue` of line 199: the next handle of the batch
after_fetch_not_ok == "messages"

after_message_exception_ends_mailbox == "close"

\* except Exception of lines 224-225: the next handle of the batch
after_message_exception == "messages"

\* The commands imaplib allows in a session state: CLOSE only in SELECTED.
close_legal(st) == st = "SELECTED"

\* line 153, the listing exhausted: on to line 238
ForFolderEnd ==
    /\ pc = "for_folder"
    /\ fidx = Len(folder_list)
    /\ pc' = "logout"
    /\ UNCHANGED << outcome, state, args, folder_vars, batch_vars, fs, log, calls,
                    writes, faults >>

\* lines 153-158: an entry the inclusion set leaves out
SkipFolder ==
    /\ pc = "for_folder"
    /\ fidx < Len(folder_list)
    /\ LET name == parse_folder_name(folder_list[fidx + 1]) IN
         /\ ~is_included(include_folders, name)
         /\ folder_name' = name
    /\ fidx' = fidx + 1
    /\ UNCHANGED << pc, outcome, state, args, folder_list, folder_path, batch_vars,
                    fs, log, calls, writes, faults >>

\* lines 153-163: an included entry; its directory is created
EnterFolder ==
    /\ pc = "for_folder"
    /\ fidx < Len(folder_list)
    /\ LET name == parse_folder_name(folder_list[fidx + 1])
           path == join(OutputDir, sanitize_filename(name))
       IN
         /\ is_included(include_folders, name)
         /\ folder_name' = name
         /\ fidx' = fidx + 1
         /\ \E res \in Outcomes({"raise"}) :
              /\ Charge(res)
              /\ IF res = "OK"
                 THEN /\ folder_path' = path
                      /\ fs' = makedirs(fs, path)
                      /\ pc' = "select"
                      /\ UNCHANGED << outcome, log, calls >>
                 ELSE /\ RunError(Append(calls, Call("makedirs", fidx + 1, 0, "raise")))
                      /\ UNCHANGED << folder_path, fs >>
    /\ UNCHANGED << state, args, folder_list, batch_vars, writes >>

\* What follows an exception raised inside the try of line 165.
FolderException(newcalls) ==
    /\ pc' = after_folder_exception
    /\ log' = Append(log, LogLine("ERROR", "folder", folder_name, 0))
    /\ calls' = newcalls
    /\ UNCHANGED outcome

\* lines 167-172: mail.select(...); imaplib leaves the session in AUTH until
\* the server answers OK.
Select ==
    /\ pc = "select"
    /\ \E res \in Outcomes({"NO", "raise"}) :
         /\ Charge(res)
         /\ CASE res = "OK" ->
                   /\ state' = "SELECTED"
                   /\ pc' = "search"
                   /\ calls' = Append(calls, Call("select", fidx, 0, "OK"))
                   /\ UNCHANGED << outcome, log >>
              [] res = "NO" ->
                   /\ state' = "AUTH"
                   /\ pc' = after_select_not_ok
                   /\ log' = Append(log, LogLine("WARNING", "select", folder_name, 0))
                   /\ calls' = Append(calls, Call("select", fidx, 0, "NO"))
                   /\ UNCHANGED outcome
              [] res = "raise" ->
                   /\ state' = "AUTH"
                   /\ FolderException(Append(calls, Call("select", fidx, 0, "raise")))
    /\ UNCHANGED << args, folder_vars, batch_vars, fs, writes >>

\* lines 175-182: mail.search(None, 'ALL') and the handles of its answer
Search ==
    /\ pc = "search"
    /\ \E res \in Outcomes({"NO", "raise"}) :
         /\ Charge(res)
         /\ CASE res = "OK" ->
                   /\ \E n \in account.sizes :
                        /\ message_numbers' = [k \in 1..n |-> k]
                        /\ calls' = Append(calls,
                                       [Call("search", fidx, 0, "OK") EXCEPT !.n = n])
                   /\ i' = 0
                   /\ pc' = "batches"
                   /\ UNCHANGED << outcome, log >>
              [] res = "NO" ->
                   /\ pc' = after_search_not_ok
                   /\ log' = Append(log, LogLine("WARNING", "search", folder_name, 0))
                   /\ calls' = Append(calls, Call("search", fidx, 0, "NO"))
                   /\ UNCHANGED << outcome, message_numbers, i >>
              [] res = "raise" ->
                   /\ FolderException(Append(calls, Call("search", fidx, 0, "raise")))
                   /\ UNCHANGED << message_numbers, i >>
    /\ UNCHANGED << state, args, folder_vars, batch_end, batch_numbers, msg_index,
                    fs, writes >>

\* -------------------------------------------------------- the batch loop

ShortPauseEvery == 10

Min(a, b) == IF a < b THEN a ELSE b

batch_slice_overlapping(numbers, from, to) ==
    SubSeq(numbers, IF from = 0 THEN 1 ELSE from, to)

\* message_numbers[i:batch_end]  (line 187)
batch_slice(numbers, from, to) == SubSeq(numbers, from + 1, to)

\* line 185 with batch_size = 0: range() raises ValueError
BatchSizeZero ==
    /\ pc = "batches"
    /\ batch_size = 0
    /\ FolderException(calls)
    /\ UNCHANGED << state, args, folder_vars, batch_vars, fs, writes, faults >>

\* lines 185-189: the next value of range(0, total_messages, batch_size)
NextBatch ==
    /\ pc = "batches"
    /\ batch_size > 0
    /\ i < Len(message_numbers)
    /\ batch_end' = Min(i + batch_size, Len(message_numbers))
    /\ batch_numbers' = batch_slice(message_numbers, i, batch_end')
    /\ msg_index' = 0
    /\ pc' = "messages"
    /\ UNCHANGED << outcome, state, args, folder_vars, message_numbers, i, fs, log,
                    calls, writes, faults >>

\* line 185, the range exhausted (at once when batch_size is negative): the
\* try of line 165 ends and line 235 follows
BatchesDone ==
    /\ pc = "batches"
    /\ batch_size < 0 \/ (batch_size > 0 /\ i >= Len(message_numbers))
    /\ pc' = "close"
    /\ UNCHANGED << outcome, state, args, folder_vars, batch_vars, fs, log, calls,
                    writes, faults >>

\* The file-system calls that may raise while the message raw is stored.
IoChoices(raw) ==
    {"none"} \cup
    (IF CanFail
     THEN {"makedirs", "open_eml"} \cup
          (IF \E k \in DOMAIN message_from_bytes(raw).parts :
                  is_attachment_part(message_from_bytes(raw).parts[k])
           THEN {"open_att"} ELSE {})
     ELSE {})

\* lines 202-218 for the bytes raw, with the mailbox directory folder: the
\* file system left behind, the writes made and whether an exception was raised
eml_content_reserialized(raw, email_message) == "reserialized"

\* line 215: f.write(raw_email), the bytes of the fetch and not the parsed message
eml_content(raw, email_message) == raw

store_message(fs0, raw, folder, io) ==
    LET email_message == message_from_bytes(raw)
        date_folder == get_email_folder_path(email_message, folder)
        fs1 == makedirs(fs0, date_folder)
        filename == get_unique_filename(email_message, date_folder, fs1)
        filepath == join(date_folder, filename)
        content == eml_content(raw, email_message)
        fs2 == write_file(fs1, filepath, content)
        att == save_attachments(email_message, date_folder, fs2, io)
    IN  IF io = "makedirs" THEN [fs |-> fs0, writes |-> << >>, raised |-> TRUE]
        ELSE IF io = "open_eml" THEN [fs |-> fs1, writes |-> << >>, raised |-> TRUE]
        ELSE [fs |-> att.fs,
              writes |-> << WriteEvent("eml", fs1, filepath, content, TRUE) >> \o att.writes,
              raised |-> att.raised]

\* A write with the message it belongs to.
Tagged(w, mbox, h) ==
    [kind |-> w.kind, path |-> w.path, existed |-> w.existed, content |-> w.content,
     completed |-> w.completed, mbox |-> mbox, h |-> h]

\* lines 192-225: one handle of the batch, from the fetch to the pause
ProcessMessage ==
    /\ pc = "messages"
    /\ msg_index < Len(batch_numbers)
    /\ LET h == batch_numbers[msg_index + 1] IN
       \E res \in Outcomes({"NO", "raise"}) :
         CASE res = "NO" ->
                /\ Charge(res)
                /\ calls' = Append(calls, Call("fetch", fidx, h, "NO"))
                /\ log' = Append(log, LogLine("WARNING", "fetch", folder_name, h))
                /\ pc' = after_fetch_not_ok
                /\ UNCHANGED << fs, writes >>
           [] res = "raise" ->
                /\ Charge(res)
                /\ calls' = Append(calls, Call("fetch", fidx, h, "raise"))
                /\ log' = Append(log, LogLine("ERROR", "message", folder_name, h))
                /\ pc' = after_message_exception
                /\ UNCHANGED << fs, writes >>
           [] res = "OK" ->
                \E io \in IoChoices(raw_of(account, h)) :
                  LET raw == raw_of(account, h)
                      r == store_message(fs, raw, folder_path, io)
                      fetched == [Call("fetch", fidx, h, "OK") EXCEPT !.raw = raw, !.io = io]
                      pause == msg_index % ShortPauseEvery = 0 /\ msg_index > 0
                  IN
                    /\ Charge(IF io = "none" THEN "OK" ELSE "raise")
                    /\ fs' = r.fs
                    /\ writes' = writes \o [k \in DOMAIN r.writes |->
                                              Tagged(r.writes[k], fidx, h)]
                    /\ IF r.raised
                       THEN /\ log' = Append(log, LogLine("ERROR", "message", folder_name, h))
                            /\ calls' = Append(calls, fetched)
                            /\ pc' = after_message_exception
                       ELSE /\ log' = log
                            /\ calls' = IF pause
                                        THEN calls \o << fetched, Call("sleep_short", fidx, h, "OK") >>
                                        ELSE Append(calls, fetched)
                            /\ pc' = "messages"
    /\ msg_index' = msg_index + 1
    /\ UNCHANGED << outcome, state, args, folder_vars, message_numbers, i, batch_end,
                    batch_numbers >>

\* lines 227-229: the batch is done; the pause between batches
EndBatch ==
    /\ pc = "messages"
    /\ msg_index = Len(batch_numbers)
    /\ calls' = IF batch_end < Len(message_numbers)
                THEN Append(calls, Call("sleep_long", fidx, 0, "OK"))
                ELSE calls
    /\ i' = i + batch_size
    /\ pc' = "batches"
    /\ UNCHANGED << outcome, state, args, folder_vars, message_numbers, batch_end,
                    batch_numbers, msg_index, fs, log, writes, faults >>

\* line 235: mail.close(), legal only while a mailbox is selected
Close ==
    /\ pc = "close"
    /\ IF close_legal(state)
       THEN \E res \in Outcomes({"raise"}) :
              /\ Charge(res)
              /\ IF res = "OK"
                 THEN /\ state' = "AUTH"
                      /\ pc' = "for_folder"
                      /\ calls' = Append(calls, Call("close", fidx, 0, "OK"))
                      /\ UNCHANGED << outcome, log >>
                 ELSE /\ RunError(Append(calls, Call("close", fidx, 0, "raise")))
                      /\ UNCHANGED state
       ELSE /\ RunError(Append(calls, Call("close", fidx, 0, "illegal")))
            /\ UNCHANGED << state, faults >>
    /\ UNCHANGED << args, folder_vars, batch_vars, fs, writes >>

\* lines 238-239: mail.logout()
Logout ==
    /\ pc = "logout"
    /\ \E res \in Outcomes({"raise"}) :
         /\ Charge(res)
         /\ IF res = "OK"
            THEN /\ state' = "LOGOUT"
                 /\ pc' = "done"
                 /\ outcome' = "returned"
                 /\ log' = Append(log, LogLine("INFO", "completed", << >>, 0))
                 /\ calls' = Append(calls, Call("logout", 0, 0, "OK"))
            ELSE /\ RunError(Append(calls, Call("logout", 0, 0, "raise")))
                 /\ UNCHANGED state
    /\ UNCHANGED << args, folder_vars, batch_vars, fs, writes >>

Next ==
    \/ Login
    \/ MakeOutputDir
    \/ List
    \/ ForFolderEnd
    \/ SkipFolder
    \/ EnterFolder
    \/ Select
    \/ Search
    \/ BatchSizeZero
    \/ NextBatch
    \/ BatchesDone
    \/ ProcessMessage
    \/ EndBatch
    \/ Close
    \/ Logout

Spec == Init /\ [][Next]_vars

\* ---------------------------------------------------------- the histories

\* The history entries of one kind of call.
CallsOf(op) == {a \in DOMAIN calls : calls[a].op = op}

LoginSucceeded == \E a \in CallsOf("login") : calls[a].res = "OK"

\* An injected failure: a non-OK status, a raised error, or a file-system
\* call that raised while a message was stored.
IsFailure(c) == c.res \in {"NO", "raise"} \/ c.io # "none"

\* Every failure injected so far is a result in kinds of a call in ops.
OnlyFailures(ops, kinds) ==
    \A a \in DOMAIN calls :
        IsFailure(calls[a]) =>
            calls[a].op \in ops /\ calls[a].res \in kinds /\ calls[a].io = "none"

\* The name of mailbox m of the listing, and whether the inclusion set of the
\* run lets it through.
NameOf(m) == parse_folder_name(account.listing[m])

Included(m) ==
    \/ ~include_folders.given
    \/ include_folders.names = {}
    \/ NameOf(m) \in include_folders.names

IncludedMailboxes == {m \in DOMAIN account.listing : Included(m)}

Selected(m) == \E a \in CallsOf("select") : calls[a].mbox = m

\* The fetches of mailbox m, in the order issued.
FetchesOf(m) == SelectSeq(calls, LAMBDA c : c.op = "fetch" /\ c.mbox = m)

\* The .eml writes of handle h of mailbox m.
EmlWritesOf(m, h) ==
    {w \in DOMAIN writes :
        writes[w].kind = "eml" /\ writes[w].mbox = m /\ writes[w].h = h}

AttWritesOf(m, h) ==
    {w \in DOMAIN writes :
        writes[w].kind = "att" /\ writes[w].mbox = m /\ writes[w].h = h}

\* The run is no longer inside the batch loop of mailbox m.
MailboxLeft(m) == fidx # m \/ pc \notin {"batches", "messages"}

Logged(level, what, folder, h) ==
    \E l \in DOMAIN log : log[l] = LogLine(level, what, folder, h)

RunErrorLogged == \E l \in DOMAIN log : log[l].what = "run"

\* ----------------------------------------------------------------- claims

\* C1: message-level fault isolation.  For every mailbox whose search
\* returned n handles (batch_size >= 1): once the run has left the mailbox,
\* every one of the n handles has been fetched, whatever happened to the
\* others (a non-OK fetch, a raised error), and every handle whose fetch
\* returned OK and whose date folder and .eml file could be created has its
\* .eml written; so no failure of a message ends the batch, the mailbox or
\* the run.
C1_MessageFaultIsolation ==
    \A a \in CallsOf("search") :
        (calls[a].res = "OK" /\ batch_size >= 1) =>
            LET m == calls[a].mbox
                f == FetchesOf(m)
            IN  /\ MailboxLeft(m) =>
                     \A k \in 1..calls[a].n : \E b \in DOMAIN f : f[b].h = k
                /\ \A b \in DOMAIN f :
                     (f[b].res = "OK" /\ f[b].io \notin {"makedirs", "open_eml"}) =>
                         \E w \in EmlWritesOf(m, f[b].h) : writes[w].completed

\* C1 witness: the run is over, the first handle of a mailbox failed (non-OK,
\* raised, or not storable) and a later handle of the same mailbox was written.
C1_Witness ==
    /\ pc = "done"
    /\ \E a \in CallsOf("fetch") :
         /\ calls[a].h = 1
         /\ IsFailure(calls[a])
         /\ \E w \in EmlWritesOf(calls[a].mbox, 2) : writes[w].completed

\* C2: mailbox-level isolation on a non-OK status.  When select or search on
\* mailbox m returned a status other than OK, a warning naming m is logged,
\* no fetch is ever issued for m, and, when non-OK statuses of select and
\* search are all that went wrong, the finished run has selected every
\* included mailbox of the listing, logged out and met no run-level error.
C2_StatusIsolation ==
    \A a \in CallsOf("select") \cup CallsOf("search") :
        calls[a].res = "NO" =>
            /\ Logged("WARNING", calls[a].op, NameOf(calls[a].mbox), 0)
            /\ FetchesOf(calls[a].mbox) = << >>
            /\ (pc = "done" /\ OnlyFailures({"select", "search"}, {"NO"})) =>
                   /\ \A m \in IncludedMailboxes : Selected(m)
                   /\ ~RunErrorLogged
                   /\ CallsOf("logout") # {}

\* C2 witness: the run is over, select or search of the first mailbox
\* returned non-OK and a message of the second mailbox was stored.
C2_Witness ==
    /\ pc = "done"
    /\ \E a \in CallsOf("select") \cup CallsOf("search") :
         /\ calls[a].res = "NO"
         /\ calls[a].mbox = 1
         /\ \E w \in EmlWritesOf(2, 1) : writes[w].completed

\* C3 (as claimed): mailbox-level isolation on raised errors.  When select or
\* search on mailbox m raised, the error is logged with the mailbox name and,
\* when errors raised by select and search are all that went wrong, the
\* finished run has selected every included mailbox of the listing.
C3_RaisedIsolation_Claim ==
    \A a \in CallsOf("select") \cup CallsOf("search") :
        calls[a].res = "raise" =>
            /\ Logged("ERROR", "folder", NameOf(calls[a].mbox), 0)
            /\ (pc = "done" /\ OnlyFailures({"select", "search"}, {"raise"})) =>
                   \A m \in IncludedMailboxes : Selected(m)

\* C4 (as claimed): close after select.  Between a select that returned OK
\* and the next select or the logout, a close of that mailbox is issued.
C4_CloseAfterSelect_Claim ==
    \A a \in CallsOf("select") :
        calls[a].res = "OK" =>
            \A b \in CallsOf("select") \cup CallsOf("logout") :
                b > a =>
                    \E c \in CallsOf("close") :
                        a < c /\ c < b /\ calls[c].mbox = calls[a].mbox

\* C5 (as claimed): session release.  In a finished run in which login
\* succeeded and nothing failed but the listing status, mailbox-level calls
\* and messages, logout was issued exactly once.
C5_LogoutOnce_Claim ==
    (/\ pc = "done"
     /\ LoginSucceeded
     /\ \A a \in DOMAIN calls :
            IsFailure(calls[a]) =>
                \/ calls[a].op \in {"select", "search", "fetch"}
                \/ calls[a].op = "list" /\ calls[a].res = "NO")
        => Cardinality(CallsOf("logout")) = 1

\* The directory of a path.
DirOf(path) == SubSeq(path, 1, Len(path) - 1)

\* The parts of a message that save_attachments is to write.
DecodableAttachments(msg) ==
    {k \in DOMAIN msg.parts :
        is_attachment_part(msg.parts[k]) /\ msg.parts[k].payload.present}

\* C6: no overwrite.  No open(path, 'wb') of the run, for an .eml file or for
\* an attachment, targets a path that exists, and no two writes of the run
\* have the same path; every file written is still there with its content.
C6_NoOverwrite ==
    /\ \A w \in DOMAIN writes : ~writes[w].existed
    /\ \A v, w \in DOMAIN writes : v # w => writes[v].path # writes[w].path
    /\ \A w \in DOMAIN writes :
         /\ writes[w].path \in DOMAIN fs.files
         /\ fs.files[writes[w].path] = writes[w].content

\* C6 witness: two messages of different mailboxes with the same base name
\* were stored in the same bucket folder (two mailbox names sanitize to one
\* directory), and two attachments with the same sanitized name were written
\* to one attachment folder.
C6_Witness ==
    /\ \E v, w \in DOMAIN writes :
         /\ writes[v].kind = "eml" /\ writes[w].kind = "eml"
         /\ writes[v].mbox # writes[w].mbox
         /\ DirOf(writes[v].path) = DirOf(writes[w].path)
         /\ base_filename(message_from_bytes(writes[v].content))
              = base_filename(message_from_bytes(writes[w].content))
    /\ \E v, w \in DOMAIN writes :
         /\ v < w
         /\ writes[v].kind = "att" /\ writes[w].kind = "att"
         /\ DirOf(writes[v].path) = DirOf(writes[w].path)
         /\ writes[w].path[Len(writes[w].path)] = << "f", "_", "1", ".", "p", "d", "f" >>

\* C7: exactly-once pagination.  For batch_size >= 1: the current batch is
\* the slice of the handle sequence that starts where the batches before it
\* end, it holds batch_size handles unless it is the last one, the fetches of
\* a mailbox are its handles in search order, each once (all of them once the
\* mailbox is left), and no handle has more than one .eml write.
C7_ExactlyOncePagination ==
    batch_size >= 1 =>
        /\ pc = "messages" =>
             /\ i % batch_size = 0
             /\ batch_end = Min(i + batch_size, Len(message_numbers))
             /\ batch_numbers = [k \in 1..(batch_end - i) |-> message_numbers[i + k]]
             /\ Len(batch_numbers) = batch_size \/ batch_end = Len(message_numbers)
             /\ Len(batch_numbers) >= 1
             /\ Len(FetchesOf(fidx)) = i + msg_index
        /\ \A a \in CallsOf("search") :
             calls[a].res = "OK" =>
                 LET m == calls[a].mbox
                     f == FetchesOf(m)
                 IN  /\ \A k \in DOMAIN f : f[k].h = k
                     /\ Len(f) <= calls[a].n
                     /\ MailboxLeft(m) => Len(f) = calls[a].n
                     /\ \A h \in 1..calls[a].n : Cardinality(EmlWritesOf(m, h)) <= 1

\* C7 witness: a mailbox of three handles was fetched in batches of two (a
\* full batch, the pause between batches, a last batch of one), each handle
\* once, and the run is over.
C7_Witness ==
    /\ pc = "done"
    /\ batch_size = 2
    /\ \E a \in CallsOf("search") :
         /\ calls[a].n = 3
         /\ Len(FetchesOf(calls[a].mbox)) = 3
         /\ \E b \in CallsOf("sleep_long") : calls[b].mbox = calls[a].mbox

\* C8 (as claimed): undecodable attachment payload.  For every message that
\* was fetched and stored with no file-system failure: no file is created for
\* a qualifying part whose decoded payload is absent, no error is logged for
\* the message, and every qualifying part with a payload is written.
C8_UndecodableSkipped_Claim ==
    \A a \in CallsOf("fetch") :
        (calls[a].res = "OK" /\ calls[a].io = "none") =>
            LET msg == message_from_bytes(calls[a].raw)
                att == AttWritesOf(calls[a].mbox, calls[a].h)
            IN  /\ \A w \in att : writes[w].completed
                /\ Cardinality(att) = Cardinality(DecodableAttachments(msg))
                /\ ~Logged("ERROR", "message", NameOf(calls[a].mbox), calls[a].h)

\* C9: fatal authentication failure.  When login fails the run is over at
\* once: login is the only call issued (no list, select, search, fetch), no
\* directory and no file exists below the output root or anywhere, the error
\* is logged, and archive_gmail has returned without raising.
C9_LoginFailureIsFatal ==
    (\E a \in CallsOf("login") : calls[a].res = "raise") =>
        /\ pc = "done"
        /\ outcome = "returned"
        /\ calls = << Call("login", 0, 0, "raise") >>
        /\ fs = EmptyFS
        /\ writes = << >>
        /\ log = << LogLine("ERROR", "run", << >>, 0) >>

\* C9 witness: a run whose login failed.
C9_Witness ==
    /\ pc = "done"
    /\ \E a \in CallsOf("login") : calls[a].res = "raise"

\* C10 (as claimed): authentication failure is the only condition that
\* prevents any archiving.  In a finished run in which login succeeded and
\* nothing went wrong but one non-OK status, a select was issued when the
\* account lists an included mailbox.
C10_OnlyLoginPreventsArchiving_Claim ==
    (/\ pc = "done"
     /\ LoginSucceeded
     /\ faults <= 1
     /\ OnlyFailures({"list", "select", "search", "fetch"}, {"NO"})
     /\ IncludedMailboxes # {})
        => CallsOf("select") # {}

\* C10 (amended): in a finished run in which login succeeded and the listing
\* returned OK, a select was issued when the listing holds an included
\* mailbox, unless creating the directory of the first included mailbox
\* raised.  (A non-OK or raising listing, like an error creating the output
\* root, ends the run before any mailbox is attempted.)
C10_ListingOKLeadsToSelect ==
    (/\ pc = "done"
     /\ \E a \in CallsOf("list") : calls[a].res = "OK"
     /\ IncludedMailboxes # {}
     /\ CallsOf("select") = {})
        => \E a \in CallsOf("makedirs") :
               /\ calls[a].res = "raise"
               /\ calls[a].mbox \in IncludedMailboxes
               /\ \A m \in IncludedMailboxes : calls[a].mbox <= m

\* C10 witness: a finished run in which login and the listing succeeded, the
\* inclusion set left out the first mailbox and the second one was selected.
C10_Witness ==
    /\ pc = "done"
    /\ \E a \in CallsOf("list") : calls[a].res = "OK"
    /\ 1 \notin IncludedMailboxes
    /\ \E a \in CallsOf("select") : calls[a].mbox = 2

\* ------------------------------------------------------------------ C11

\* Two messages of one mailbox were given the same base name, so the loop of
\* lines 80-82 ran.
EmlCollision ==
    \E v, w \in DOMAIN writes :
        /\ v < w
        /\ writes[v].kind = "eml"
        /\ writes[w].kind = "eml"
        /\ DirOf(writes[v].path) = DirOf(writes[w].path)
        /\ base_filename(message_from_bytes(writes[v].content))
             = base_filename(message_from_bytes(writes[w].content))

\* Where the run is: the stage of archive_gmail, the mailboxes taken, the
\* position inside the mailbox, the start of the batch, the position inside
\* the batch and the handles of the batch taken.
Stage ==
    CASE pc = "login" -> 0
      [] pc = "makedirs_root" -> 1
      [] pc = "list" -> 2
      [] pc \in {"for_folder", "select", "search", "batches", "messages", "close"} -> 3
      [] pc = "logout" -> 4
      [] pc = "done" -> 5

InFolder ==
    CASE pc = "select" -> 1
      [] pc = "search" -> 2
      [] pc \in {"batches", "messages"} -> 3
      [] pc = "close" -> 4
      [] pc = "for_folder" -> 5
      [] OTHER -> 0

Position ==
    << Stage, fidx, InFolder,
       IF pc \in {"batches", "messages"} THEN i ELSE 0,
       IF pc = "messages" THEN 1 ELSE 0,
       IF pc = "messages" THEN msg_index ELSE 0 >>

\* The lexicographic order.
LexLess(a, b) ==
    \E k \in DOMAIN a :
        /\ a[k] < b[k]
        /\ \A j \in 1..(k - 1) : a[j] = b[j]

\* The positions are bounded: by the listing, by the handles of the mailbox
\* and by the handles of the batch.
PositionBounded ==
    /\ fidx <= Len(folder_list)
    /\ Len(folder_list) <= Len(account.listing)
    /\ pc \in {"batches", "messages"} =>
          /\ i >= 0
          /\ (pc = "messages" => i < Len(message_numbers))
          /\ (batch_size >= 1 => i < Len(message_numbers) + batch_size)
          /\ Len(message_numbers) \in account.sizes
    /\ pc = "messages" => msg_index <= Len(batch_numbers)
                            /\ Len(batch_numbers) <= Len(message_numbers)

\* C11: for every listing, every mailbox size and every pattern of non-OK
\* statuses and raised errors, archive_gmail returns and no exception propagates
\* to its caller: every step (the rounds of the loops that resolve name
\* collisions are inside a step) moves the run to a strictly later position, the
\* positions are bounded, and the run ends returned, never raised.
C11_RunEndsWithoutRaising ==
    /\ [][LexLess(Position, Position')]_vars
    /\ [](PositionBounded)
    /\ [](outcome # "raised")
    /\ [](pc = "done" <=> outcome = "returned")

\* A run that resolved a name collision, then met a raised error, and ended.
C11_Witness ==
    /\ pc = "done"
    /\ outcome = "returned"
    /\ EmlCollision
    /\ RunErrorLogged

\* ------------------------------------------------------------------ C12

\* C12: verbatim storage.  Every .eml file written holds exactly the bytes the
\* fetch of its handle returned (not a re-serialisation of the parsed message),
\* the file on disk still holds them, and the file is written before any
\* attachment of the same message is.
C12_VerbatimStorage ==
    \A w \in DOMAIN writes :
        writes[w].kind = "eml" =>
            /\ \E a \in CallsOf("fetch") :
                 /\ calls[a].res = "OK"
                 /\ calls[a].mbox = writes[w].mbox
                 /\ calls[a].h = writes[w].h
                 /\ calls[a].raw = writes[w].content
            /\ writes[w].content = raw_of(account, writes[w].h)
            /\ writes[w].completed
            /\ writes[w].path \in DOMAIN fs.files
            /\ fs.files[writes[w].path] = writes[w].content
            /\ \A v \in AttWritesOf(writes[w].mbox, writes[w].h) : w < v

\* C12 witness: a message with attachments was stored: its .eml, then its
\* attachments, and a second message of other bytes next to it.
C12_Witness ==
    \E w, x \in DOMAIN writes :
        /\ writes[w].kind = "eml"
        /\ writes[x].kind = "eml"
        /\ writes[w].content # writes[x].content
        /\ AttWritesOf(writes[w].mbox, writes[w].h) # {}

\* ------------------------------------------------------------------ C13

\* The local directory of mailbox m of the listing.
DirFor(m) == join(OutputDir, sanitize_filename(NameOf(m)))

\* The directories directly below the output directory.
MailboxDirs == {d \in fs.dirs : Len(d) = Len(OutputDir) + 1}

ListedOK == \E a \in CallsOf("list") : calls[a].res = "OK"

\* C13: the inclusion filter.  A mailbox is selected, fetched from and given a
\* local directory only if no inclusion set is configured (none, or an empty
\* one) or its name, without the framing and the quotes of the listing, is a
\* member; every directory below the output directory is that of an included
\* mailbox the loop has taken; every included mailbox the loop has taken has
\* its directory and is selected next (unless creating the directory raised);
\* and in a run that ends without a run-level error the mailboxes selected
\* are exactly the included ones.
C13_InclusionFilter ==
    /\ \A m \in DOMAIN account.listing :
         ~Included(m) =>
            \A a \in DOMAIN calls :
                calls[a].mbox = m => calls[a].op \notin {"select", "search", "fetch"}
    /\ \A d \in MailboxDirs :
         \E m \in 1..fidx : Included(m) /\ d = DirFor(m)
    /\ \A m \in 1..fidx :
         Included(m) =>
            \/ DirFor(m) \in fs.dirs /\ Selected(m)
            \/ DirFor(m) \in fs.dirs /\ m = fidx /\ pc = "select"
            \/ \E a \in CallsOf("makedirs") : calls[a].mbox = m /\ calls[a].res = "raise"
    /\ (pc = "done" /\ ListedOK /\ ~RunErrorLogged) =>
         \A m \in DOMAIN account.listing : Selected(m) <=> Included(m)

\* C13 witness: a run with an inclusion set ended; the set let one mailbox
\* through, which was selected and has its directory, and kept out another,
\* which was never selected although its name sanitizes to the same directory.
C13_Witness ==
    /\ pc = "done"
    /\ include_folders.given
    /\ include_folders.names # {}
    /\ \E m, x \in DOMAIN account.listing :
         /\ Included(m)
         /\ Selected(m)
         /\ DirFor(m) \in fs.dirs
         /\ ~Included(x)
         /\ ~Selected(x)
         /\ DirFor(x) = DirFor(m)

\* ------------------------------------------------------------------ C14

\* The number of handles the search of mailbox m returned.
MessagesOf(m) ==
    LET a == CHOOSE a \in CallsOf("search") : calls[a].mbox = m /\ calls[a].res = "OK"
    IN  calls[a].n

Searched(m) == \E a \in CallsOf("search") : calls[a].mbox = m /\ calls[a].res = "OK"

IsEmlName(name) == splitext(name)[2] = T_eml

\* The .eml files anywhere below the directory d.
EmlFilesBelow(d) ==
    {p \in DOMAIN fs.files :
        /\ Len(p) > Len(d)
        /\ SubSeq(p, 1, Len(d)) = d
        /\ IsEmlName(p[Len(p)])}

\* The message files below the mailbox directory d: the .eml files in its
\* date buckets.
MessageFilesBelow(d) == {p \in EmlFilesBelow(d) : Len(p) = Len(d) + 2}

\* A run in which every session and file-system operation succeeded has ended.
CleanRunEnded == pc = "done" /\ faults = 0 /\ batch_size >= 1 /\ ListedOK

\* C14 as stated, for the runs that logged no warning and no error: after
\* the run every included mailbox has its directory and the number of .eml
\* files below it equals the number of messages of that mailbox.
C14_CountPerMailbox_Claim ==
    (CleanRunEnded /\ \A l \in DOMAIN log : log[l].level = "INFO") =>
        \A m \in IncludedMailboxes :
            /\ DirFor(m) \in fs.dirs
            /\ Searched(m)
            /\ Cardinality(EmlFilesBelow(DirFor(m))) = MessagesOf(m)

\* C14, amended: when every session and file-system operation succeeds and the
\* batch size is at least 1, every included mailbox has its directory (one
\* with zero messages too), every one of its messages was written to one .eml
\* file of its own, and the number of message files below a mailbox directory
\* is the number of messages of all the included mailboxes whose names
\* sanitize to that directory.
C14_CountPerDirectory ==
    CleanRunEnded =>
        \A m \in IncludedMailboxes :
            /\ DirFor(m) \in fs.dirs
            /\ Searched(m)
            /\ Cardinality({w \in DOMAIN writes :
                              writes[w].kind = "eml" /\ writes[w].mbox = m})
                 = MessagesOf(m)
            /\ \A h \in 1..MessagesOf(m) : Cardinality(EmlWritesOf(m, h)) = 1
            /\ Cardinality(MessageFilesBelow(DirFor(m)))
                 = Cardinality({w \in DOMAIN writes :
                                  /\ writes[w].kind = "eml"
                                  /\ DirFor(writes[w].mbox) = DirFor(m)})
            /\ \A w \in DOMAIN writes :
                 (writes[w].kind = "eml" /\ DirFor(writes[w].mbox) = DirFor(m)) =>
                     writes[w].path \in MessageFilesBelow(DirFor(m))

\* C14 witness: a clean run with batches of two ended; one mailbox held three
\* messages, another none, and both have their directories.
C14_Witness ==
    /\ CleanRunEnded
    /\ batch_size = 2
    /\ \E m, x \in IncludedMailboxes :
         /\ Searched(m)
         /\ MessagesOf(m) = 3
         /\ Cardinality(MessageFilesBelow(DirFor(m))) = 3
         /\ Searched(x)
         /\ MessagesOf(x) = 0
         /\ DirFor(x) \in fs.dirs
         /\ MessageFilesBelow(DirFor(x)) = {}

\* ------------------------------------------------------------------ C15

\* A log line names handle h of mailbox m.
HandleLogged(m, h) ==
    \E l \in DOMAIN log : log[l].folder = NameOf(m) /\ log[l].h = h /\ h > 0

\* A log line names mailbox m.
MailboxLogged(m) == \E l \in DOMAIN log : log[l].folder = NameOf(m)

\* Every handle of mailbox m was fetched and the run has left the mailbox.
FullyProcessed(m) ==
    /\ Searched(m)
    /\ MailboxLeft(m)
    /\ \A h \in 1..MessagesOf(m) :
         \E a \in CallsOf("fetch") : calls[a].mbox = m /\ calls[a].h = h

\* C15 as stated, for batch sizes of at least 1 and failures of session calls
\* only: no silent drop.  Once the run has left a mailbox, every handle its search returned has an .eml file
\* written or a log line naming the handle; and when the run is over every
\* included mailbox of the listing was fully processed or has a log line
\* naming it.
C15_NoSilentDrop_Claim ==
    (batch_size >= 1
       /\ OnlyFailures({"select", "search", "fetch", "close"}, {"NO", "raise"})) =>
        /\ \A m \in 1..fidx :
             (Searched(m) /\ MailboxLeft(m)) =>
                 \A h \in 1..MessagesOf(m) :
                     EmlWritesOf(m, h) # {} \/ HandleLogged(m, h)
        /\ (pc = "done" /\ ListedOK) =>
             \A m \in IncludedMailboxes : FullyProcessed(m) \/ MailboxLogged(m)

\* ------------------------------------------- the helper functions on their own

\* The longest string given to sanitize_filename.
MaxStr == 3

\* The largest suffix among the files already in the folder.
MaxSuffix == 3

\* The largest number of parts of a message.
MaxParts == 3

Alphabet == Reserved \cup {"a", "_"}

Strings == UNION {[1..k -> Alphabet] : k \in 0..MaxStr}

\* sanitize_filename(s), and the slices [:n] before and after it
SanitizeInputs ==
    {[kind |-> "sanitize", s |-> s, n |-> n, done |-> FALSE, out |-> << >>,
      again |-> << >>, cut_after |-> << >>, cut_before |-> << >>] :
        s \in Strings, n \in 0..(MaxStr + 1)}

\* The messages of the account that get the same base name, their bucket and
\* that base name.
SameBase == {"mA", "mB"}

FnBucket == get_email_folder_path(message_from_bytes("mA"), join(OutputDir, T_INBOX))

FnBase == base_filename(message_from_bytes("mA"))

\* The names get_unique_filename may find taken.
Candidates ==
    {FnBase \o T_eml}
      \cup {FnBase \o << "_" >> \o Str(k) \o T_eml : k \in 1..MaxSuffix}

\* The bucket holding files of the given names.
FolderWith(names) ==
    [dirs |-> makedirs(EmptyFS, FnBucket).dirs,
     files |-> [p \in {join(FnBucket, nm) : nm \in names} |-> "old"]]

\* get_unique_filename for a row of messages stored into one folder
UniqueInputs ==
    {[kind |-> "unique", initial |-> S, fs |-> FolderWith(S), msgs |-> ms,
      steps |-> << >>] :
        S \in SUBSET Candidates, ms \in [1..MaxMsgs -> SameBase]}

\* The parts email_message.walk() may yield: a container, a text body, an
\* inline image (a filename, no disposition), an attached PDF, a part with a
\* disposition and no filename, a container with a disposition and a filename,
\* and an attached message (no decodable payload).
PartKinds ==
    { Part("multipart", FALSE, << >>, NoPayload),
      TextBody,
      Part("image", FALSE, << "i", ".", "p", "n", "g" >>, Bytes("png")),
      Part("application", TRUE, T_f_pdf, Bytes("pdf1")),
      Part("application", TRUE, << >>, Bytes("nofile")),
      Part("multipart", TRUE, T_f_pdf, NoPayload),
      Part("message", TRUE, << "e", ".", "e", "m", "l" >>, NoPayload) }

FnMessage(parts) ==
    [Date |-> DateOf(2023, 1, 2, 10, 0, 0),
     From |-> Present(<< "x", "@", "y" >>),
     Subject |-> Present(T_Hi),
     parts |-> parts]

\* save_attachments for one message
AttachInputs ==
    {[kind |-> "attach", parts |-> ps, done |-> FALSE,
      out |-> NoAttachmentsYet(EmptyFS)] :
        ps \in UNION {[1..k -> PartKinds] : k \in 0..MaxParts}}

FnInit ==
    /\ pc = "fn"
    /\ outcome = "running"
    /\ state = "NONAUTH"
    /\ account = [messages |-> Contents, listing |-> << >>, sizes |-> {0}]
    /\ include_folders = NoFolders
    /\ batch_size = 1
    /\ folder_list = << >>
    /\ fidx = 0
    /\ folder_name = << >>
    /\ folder_path = << >>
    /\ message_numbers = << >>
    /\ i = 0
    /\ batch_end = 0
    /\ batch_numbers = << >>
    /\ msg_index = 0
    /\ fs = EmptyFS
    /\ log = << >>
    /\ calls = << >>
    /\ writes = << >>
    /\ faults = 0
    /\ probe \in SanitizeInputs \cup UniqueInputs \cup AttachInputs

\* lines 42-45
ApplySanitize ==
    /\ probe.kind = "sanitize"
    /\ ~probe.done
    /\ LET out == sanitize_filename(probe.s) IN
       probe' = [probe EXCEPT !.done = TRUE,
                              !.out = out,
                              !.again = sanitize_filename(out),
                              !.cut_after = Take(out, probe.n),
                              !.cut_before = sanitize_filename(Take(probe.s, probe.n))]
    /\ UNCHANGED run_vars

\* The names in the directory folder.
NamesIn(fs0, folder) ==
    {p[Len(p)] : p \in {q \in fs0.dirs \cup DOMAIN fs0.files : DirOf(q) = folder}}

\* lines 206-215 for the next message of the row: the folder, the filename, the
\* write
ApplyUniqueFilename ==
    /\ probe.kind = "unique"
    /\ Len(probe.steps) < Len(probe.msgs)
    /\ LET raw == probe.msgs[Len(probe.steps) + 1]
           msg == message_from_bytes(raw)
           folder == get_email_folder_path(msg, join(OutputDir, T_INBOX))
           filename == get_unique_filename(msg, folder, probe.fs)
       IN  probe' = [probe EXCEPT
                       !.fs = write_file(@, join(folder, filename), raw),
                       !.steps = Append(@, [base |-> base_filename(msg),
                                            before |-> NamesIn(probe.fs, folder),
                                            name |-> filename])]
    /\ UNCHANGED run_vars

\* lines 86-123
ApplySaveAttachments ==
    /\ probe.kind = "attach"
    /\ ~probe.done
    /\ probe' = [probe EXCEPT
                   !.done = TRUE,
                   !.out = save_attachments(FnMessage(probe.parts), FnBucket,
                                            makedirs(EmptyFS, FnBucket), "none")]
    /\ UNCHANGED run_vars

FnNext ==
    \/ ApplySanitize
    \/ ApplyUniqueFilename
    \/ ApplySaveAttachments

FnSpec == FnInit /\ [][FnNext]_vars

\* ------------------------------------------------------------------ C16

T_B ==
    << "2", "0", "2", "3", "-", "0", "1", "-", "0", "2", "_",
       "1", "0", "-", "0", "0", "-", "0", "0", "_", "x", "@", "y", "_", "H", "i" >>

Suffixed(B, k) == B \o << "_" >> \o Str(k) \o T_eml

\* C16: the collision suffix rule of get_unique_filename.  For a base name B
\* and any set of names already in the folder, the result is B.eml when B.eml
\* does not exist, and otherwise B_k.eml for the smallest k >= 1 such that
\* B_k.eml does not exist; three messages of the same base name stored into an
\* empty folder get B.eml, B_1.eml, B_2.eml, in that order.
C16_CollisionSuffixRule ==
    probe.kind = "unique" =>
        /\ \A t \in DOMAIN probe.steps :
             LET st == probe.steps[t] IN
               /\ st.base = T_B
               /\ IF T_B \o T_eml \notin st.before
                  THEN st.name = T_B \o T_eml
                  ELSE \E k \in 1..(Cardinality(st.before) + 1) :
                         /\ st.name = Suffixed(T_B, k)
                         /\ Suffixed(T_B, k) \notin st.before
                         /\ \A j \in 1..(k - 1) : Suffixed(T_B, j) \in st.before
        /\ (probe.initial = {} /\ Len(probe.steps) >= 3) =>
             /\ probe.steps[1].name = T_B \o T_eml
             /\ probe.steps[2].name = T_B \o << "_", "1" >> \o T_eml
             /\ probe.steps[3].name = T_B \o << "_", "2" >> \o T_eml

\* C16 witness: the folder held B.eml and B_2.eml and not B_1.eml; the first
\* message stored got B_1.eml, the second B_3.eml.
C16_Witness ==
    /\ probe.kind = "unique"
    /\ probe.initial = {T_B \o T_eml, Suffixed(T_B, 2)}
    /\ Len(probe.steps) >= 2
    /\ probe.steps[1].name = Suffixed(T_B, 1)
    /\ probe.steps[2].name = Suffixed(T_B, 3)

\* ------------------------------------------------------------------ C17

\* The parts that are no containers, carry a Content-Disposition and have a
\* non-empty filename.
Qualifying(parts) ==
    {k \in DOMAIN parts :
        /\ parts[k].maintype # "multipart"
        /\ parts[k].disposition
        /\ parts[k].filename # << >>}

\* C17: attachment selection.  When every payload is decodable,
\* save_attachments raises nothing and writes one file for each part that is
\* no multipart container, carries a Content-Disposition and has a non-empty
\* filename, each a file of its own holding the payload of such a part; a part
\* with no disposition is never written; a message with no such part leaves
\* the file system as it was (no attachments folder), and otherwise the files
\* are in the attachments folder of the message.
C17_AttachmentSelection ==
    (/\ probe.kind = "attach"
     /\ probe.done
     /\ \A k \in Qualifying(probe.parts) : probe.parts[k].payload.present) =>
        LET q == Qualifying(probe.parts)
            fs0 == makedirs(EmptyFS, FnBucket)
            out == probe.out
        IN  /\ ~out.raised
            /\ Len(out.writes) = Cardinality(q)
            /\ Cardinality(DOMAIN out.fs.files) = Cardinality(q)
            /\ \A w \in DOMAIN out.writes :
                 /\ out.writes[w].completed
                 /\ out.writes[w].path \in DOMAIN out.fs.files
                 /\ \E k \in q : out.writes[w].content = probe.parts[k].payload.data
                 /\ DirOf(out.writes[w].path)
                      = attachments_path_of(FnMessage(probe.parts), FnBucket)
            /\ \A k \in DOMAIN probe.parts :
                 ~probe.parts[k].disposition =>
                     \A w \in DOMAIN out.writes :
                         out.writes[w].content # probe.parts[k].payload.data
            /\ q = {} => out.fs = fs0
            /\ q # {} => attachments_path_of(FnMessage(probe.parts), FnBucket) \in out.fs.dirs

\* C17 witness: a message of a text body, an inline image and an attached PDF
\* was given to save_attachments, and one file was written.
C17_Witness ==
    /\ probe.kind = "attach"
    /\ probe.done
    /\ probe.parts = << TextBody,
                        Part("image", FALSE, << "i", ".", "p", "n", "g" >>, Bytes("png")),
                        Part("application", TRUE, T_f_pdf, Bytes("pdf1")) >>
    /\ Len(probe.out.writes) = 1

\* ------------------------------------------------------------------ C20

\* C20: the sanitizer.  sanitize_filename returns a string of the same length
\* that holds none of \ / * ? : " < > | and equals the input wherever the
\* input holds another character; sanitizing twice gives what sanitizing once
\* gives; the empty string gives the empty string; and cutting to the first n
\* characters before or after sanitizing gives the same string.
C20_Sanitizer ==
    (probe.kind = "sanitize" /\ probe.done) =>
        /\ Len(probe.out) = Len(probe.s)
        /\ \A k \in DOMAIN probe.out :
             probe.out[k] \notin {"\\", "/", "*", "?", ":", "\"", "<", ">", "|"}
        /\ \A k \in DOMAIN probe.s :
             probe.s[k] \notin {"\\", "/", "*", "?", ":", "\"", "<", ">", "|"} =>
                 probe.out[k] = probe.s[k]
        /\ probe.again = probe.out
        /\ (probe.s = << >> => probe.out = << >>)
        /\ probe.cut_after = probe.cut_before

\* C20 witness: a string with a reserved character in its first n characters
\* and another after them, and a character that is not reserved, was sanitized.
C20_Witness ==
    /\ probe.kind = "sanitize"
    /\ probe.done
    /\ probe.s = << ":", "a", "/" >>
    /\ probe.n = 2
    /\ probe.out = << "_", "a", "_" >>
    /\ probe.cut_after = << "_", "a" >>

\* ------------------------------------------------------------------ C18

\* C18 as stated, for the runs without a failed call: one attachment folder
\* per message.  No folder below
\* <bucket>/attachments/ holds attachments of more than one source message:
\* two attachment files written into the same folder belong to the same
\* handle of the same mailbox.
C18_OneFolderPerMessage_Claim ==
    \A v, w \in DOMAIN writes :
        (/\ faults = 0
         /\ writes[v].kind = "att"
         /\ writes[w].kind = "att"
         /\ DirOf(writes[v].path) = DirOf(writes[w].path)) =>
            (writes[v].mbox = writes[w].mbox /\ writes[v].h = writes[w].h)

\* ------------------------------------------------ a mailbox of many messages

\* The number of messages of the large mailbox: more than ShortPauseEvery, so
\* that a batch reaches the index of the short pause.
LargeMailbox == 12

\* An account with an excluded mailbox and a large one.
PacingAccounts ==
    {[messages |-> << "mA", "mB" >>,
      listing |-> << ListEntry(T_INBOX, TRUE), ListEntry(T_a_b, TRUE) >>,
      sizes |-> {LargeMailbox}]}

\* No batches, a batch that ends just after the short pause, one batch for all.
PacingBatchSizes == {0, ShortPauseEvery + 1, LargeMailbox}

PacingInit == InitWith(PacingAccounts, {FolderList({T_a_b})}, PacingBatchSizes)

PacingSpec == PacingInit /\ [][Next]_vars

\* ------------------------------------------------------------------ C19

\* The index in its batch of handle h (the handles of a mailbox are 1..n and
\* the batches start at the multiples of batch_size).
BatchIndex(h) == (h - 1) % batch_size

PauseIndex(h) == BatchIndex(h) > 0 /\ BatchIndex(h) % 10 = 0

IsCall(c, op, m, h) ==
    c \in DOMAIN calls /\ calls[c].op = op /\ calls[c].mbox = m /\ calls[c].h = h

\* The last history entry of the message fetched at entry a: its short pause,
\* if it has one.
EndOfMessage(a) ==
    IF IsCall(a + 1, "sleep_short", calls[a].mbox, calls[a].h) THEN a + 1 ELSE a

\* The step that ends the batch of handle h of mailbox m has been taken.
BatchEnded(m, h) ==
    ~(pc = "messages" /\ fidx = m /\ batch_end = h)

\* C19 as stated: pacing.  The short pause follows the message at every batch
\* index i with i > 0 and i mod 10 = 0, whatever the outcome of the message
\* (fetched and stored, fetch not OK, or an error raised), and follows no other
\* message; the long pause follows once every batch that is not the last of
\* the mailbox and never the last batch.
C19_Pacing_Claim ==
    batch_size >= 1 =>
        /\ \A a \in CallsOf("fetch") :
             LET m == calls[a].mbox
                 h == calls[a].h
                 e == EndOfMessage(a)
                 last_of_batch == h % batch_size = 0 \/ h = MessagesOf(m)
             IN  /\ IsCall(a + 1, "sleep_short", m, h) <=> PauseIndex(h)
                 /\ (last_of_batch /\ BatchEnded(m, h)) =>
                       (IsCall(e + 1, "sleep_long", m, 0) <=> h < MessagesOf(m))
                 /\ ~last_of_batch => ~IsCall(e + 1, "sleep_long", m, 0)
        /\ \A c \in CallsOf("sleep_short") :
             c > 1 /\ IsCall(c - 1, "fetch", calls[c].mbox, calls[c].h)
        /\ \A c \in CallsOf("sleep_long") :
             c > 1 /\ calls[c - 1].op \in {"fetch", "sleep_short"}
                   /\ calls[c - 1].mbox = calls[c].mbox

====
